---- MODULE Spec2Model ----
(***************************************************************************)
(* CrawlForAI: sitemap resolution, page fetching, text segmentation and    *)
(* the per-page summarise-and-write loop.                                  *)
(*                                                                         *)
(* Text is a sequence of one-character strings.  Offsets into text are     *)
(* 0-based, as in the Python source; TLA+ sequences are 1-based, so        *)
(* character number i of the source is s[i + 1] here.                      *)
(***************************************************************************)
EXTENDS Integers, Sequences, FiniteSets, TLC

VARIABLES
    \* chunk_by_header / chunk_markdown     (one call)
    md, sections, hpc,
    \* chunk_by_paragraphs                  (one call, by loop iteration)
    section, max_chars, overlap_paras, paras, pidx, curr, curr_len, chunks,
    parts, ppc,
    \* chunk_text                           (one call, by loop iteration)
    text, MAX_CHARS, OVERLAP, start, wchunks, wpc,
    \* fetch_sitemap_urls                   (one top-level call)
    web, visited, stack, arg, ret, fetched, steps, smpc,
    \* fetch_markdown of sitemap_page_per_file_recursive.py   (one call)
    dyn, stat, crawls, gets, fresult, fpc,
    \* main() of sitemap_chunks.py, main.py, sitemap_page_per_file_recursive.py
    program, targets, tidx, got, queue, counter, written, exc, rpc

hdrVars  == <<md, sections, hpc>>
paraVars == <<section, max_chars, overlap_paras, paras, pidx, curr, curr_len,
              chunks, parts, ppc>>
winVars  == <<text, MAX_CHARS, OVERLAP, start, wchunks, wpc>>
smVars   == <<web, visited, stack, arg, ret, fetched, steps, smpc>>
fmVars   == <<dyn, stat, crawls, gets, fresult, fpc>>
runVars  == <<program, targets, tidx, got, queue, counter, written, exc, rpc>>
vars     == <<hdrVars, paraVars, winVars, smVars, fmVars, runVars>>

\* what a step of one part leaves alone
exceptHdr  == <<paraVars, winVars, smVars, fmVars, runVars>>
exceptPara == <<hdrVars, winVars, smVars, fmVars, runVars>>
exceptWin  == <<hdrVars, paraVars, smVars, fmVars, runVars>>
exceptSm   == <<hdrVars, paraVars, winVars, fmVars, runVars>>
exceptFm   == <<hdrVars, paraVars, winVars, smVars, runVars>>
exceptRun  == <<hdrVars, paraVars, winVars, smVars, fmVars>>

----------------------------------------------------------------------------
(* Bounds of the model *)

\* longest markdown document given to the header splitters
MaxDocLen == 5
\* longest section given to the paragraph packer
MaxSectionLen == 7
\* largest max_chars and overlap_paras the paragraph packer is called with
MaxMaxChars == 5
MaxOverlapParas == 2
\* longest text given to the fixed-window chunker, the largest window and
\* overlap it is configured with, and the most windows followed in one call
MaxTextLen == 5
MaxWindow == 4
MaxWindows == 6
\* number of URLs on the modelled web, and most <loc> entries per document
NumUrls == 2
MaxLocs == 2
\* longest page text a fetch strategy answers with
MaxPageLen == 2
\* most target pages in one run
MaxTargets == 3

----------------------------------------------------------------------------
(* Characters and the str operations the source uses *)

NL == "\n"
SP == " "
Whitespace == {SP, NL}

SetMin(S) == CHOOSE x \in S : \A y \in S : x <= y
SetMax(S) == CHOOSE x \in S : \A y \in S : x >= y

\* every sequence over A of length at most n
SeqsUpTo(A, n) == UNION {[1..k -> A] : k \in 0..n}

\* str.strip(): leading and trailing whitespace removed
strip(s) ==
    LET solid == {i \in 1..Len(s) : s[i] \notin Whitespace}
    IN  IF solid = {} THEN <<>> ELSE SubSeq(s, SetMin(solid), SetMax(solid))

\* s[a:b], with Python's negative indices and clamping
slice(s, a, b) ==
    LET n     == Len(s)
        norm(i) == IF i < 0 THEN (IF i + n < 0 THEN 0 ELSE i + n)
                   ELSE (IF i > n THEN n ELSE i)
    IN  SubSeq(s, norm(a) + 1, norm(b))

\* separator.join(items)
RECURSIVE join(_, _)
join(sep, items) ==
    IF items = <<>> THEN <<>>
    ELSE IF Len(items) = 1 THEN items[1]
    ELSE items[1] \o sep \o join(sep, Tail(items))

----------------------------------------------------------------------------
(* Header sectioning *)

\* re.compile(r'^(# .+|## .+)$', re.MULTILINE): a match starts at 0-based
\* offset i iff i is a line start and the line is "# " or "## " followed by
\* at least one character ('.' matches anything but a newline, and '.+'
\* runs to the end of the line, where '$' holds).
header_pat(s, i) ==
    LET at(k) == IF i + k + 1 <= Len(s) THEN s[i + k + 1] ELSE NL
    IN  /\ i < Len(s)
        /\ (i = 0 \/ s[i] = NL)
        /\ \/ (at(0) = "#" /\ at(1) = SP /\ at(2) # NL)
           \/ (at(0) = "#" /\ at(1) = "#" /\ at(2) = SP /\ at(3) # NL)

\* [m.start() for m in header_pat.finditer(s)], ascending
RECURSIVE match_starts(_, _)
match_starts(s, from) ==
    IF from >= Len(s) THEN <<>>
    ELSE IF header_pat(s, from) THEN <<from>> \o match_starts(s, from + 1)
    ELSE match_starts(s, from + 1)

\* the loop over range(len(bounds) - 1): trimmed pieces, empty ones dropped
RECURSIVE pieces(_, _, _)
pieces(s, bounds, i) ==
    IF i + 1 > Len(bounds) - 1 THEN <<>>
    ELSE LET sec == strip(slice(s, bounds[i + 1], bounds[i + 2]))
         IN  (IF sec # <<>> THEN <<sec>> ELSE <<>>) \o pieces(s, bounds, i + 1)

chunk_by_header(markdown) ==
    LET bounds == match_starts(markdown, 0) \o <<Len(markdown)>>
    IN  pieces(markdown, bounds, 0)

chunk_markdown(doc) ==
    LET bounds == match_starts(doc, 0) \o <<Len(doc)>>
    IN  pieces(doc, bounds, 0)

----------------------------------------------------------------------------
(* Paragraph packing *)

\* re.split(r'\n\s*\n', s): the leftmost match starts at the first newline
\* that only whitespace separates from a later newline, and the greedy \s*
\* carries it to the last such newline.
RECURSIVE split_paras(_)
split_paras(s) ==
    LET closes(i) == {j \in (i + 1)..Len(s) :
                         /\ s[j] = NL
                         /\ \A m \in (i + 1)..(j - 1) : s[m] \in Whitespace}
        opens == {i \in 1..Len(s) : s[i] = NL /\ closes(i) # {}}
    IN  IF opens = {} THEN <<s>>
        ELSE LET i == SetMin(opens)
                 j == SetMax(closes(i))
             IN  <<SubSeq(s, 1, i - 1)>> \o split_paras(SubSeq(s, j + 1, Len(s)))

\* sum(len(x) + 2 for x in ps)
RECURSIVE len_with_blank(_)
len_with_blank(ps) ==
    IF ps = <<>> THEN 0 ELSE Len(ps[1]) + 2 + len_with_blank(Tail(ps))

\* "\n\n".join(ps).strip()
chunk_of(ps) == strip(join(<<NL, NL>>, ps))

\* the accumulator of the packing loop: the paragraphs held, their counted
\* length, the chunks flushed so far, and the paragraphs each chunk was
\* joined from
packer0 == [curr |-> <<>>, curr_len |-> 0, chunks |-> <<>>, parts |-> <<>>]

\* if curr_len + plen > max_chars and curr
must_flush(st, p, mx) == st.curr_len + (Len(p) + 2) > mx /\ st.curr # <<>>

\* the flush without the carry-over: curr = []
keep_none(ps, k) == <<>>

\* curr[-overlap_paras:]
keep_last(ps, k) == slice(ps, 0 - k, Len(ps))

\* chunks.append(...); curr = curr[-overlap_paras:]; curr_len = sum(...)
flush(st, k) ==
    LET kept == keep_last(st.curr, k)
    IN  [curr     |-> kept,
         curr_len |-> len_with_blank(kept),
         chunks   |-> Append(st.chunks, chunk_of(st.curr)),
         parts    |-> Append(st.parts, st.curr)]

\* curr.append(p); curr_len += plen
take(st, p) ==
    [st EXCEPT !.curr = Append(@, p), !.curr_len = @ + Len(p) + 2]

\* if curr: chunks.append(...)
flush_rest(st) ==
    IF st.curr # <<>>
    THEN [st EXCEPT !.chunks = Append(@, chunk_of(st.curr)),
                    !.parts  = Append(@, st.curr)]
    ELSE st

RECURSIVE pack(_, _, _, _, _)
pack(ps, i, st, mx, k) ==
    IF i > Len(ps) THEN flush_rest(st)
    ELSE LET st1 == IF must_flush(st, ps[i], mx) THEN flush(st, k) ELSE st
         IN  pack(ps, i + 1, take(st1, ps[i]), mx, k)

\* the whole call, as the orchestrator uses it
chunk_by_paragraphs(sec, mx, k) ==
    pack(split_paras(strip(sec)), 1, packer0, mx, k).chunks

----------------------------------------------------------------------------
(* Fixed-window chunking *)

\* end = min(start + MAX_CHARS, length)
window_end(st, length, mx) == IF st + mx < length THEN st + mx ELSE length

\* the window advanced without the overlap: start = end
next_start_no_overlap(end, ov) == end

\* start = end - OVERLAP
next_start(end, ov) == end - ov

\* the whole call; defined when the loop ends, which it does for ov < mx
RECURSIVE windows_from(_, _, _, _)
windows_from(t, st, mx, ov) ==
    IF st < Len(t)
    THEN LET end == window_end(st, Len(t), mx)
         IN  <<slice(t, st, end)>> \o
             (IF end = Len(t) THEN <<>>
              ELSE windows_from(t, next_start(end, ov), mx, ov))
    ELSE <<>>

chunk_text(t, mx, ov) == windows_from(t, 0, mx, ov)

----------------------------------------------------------------------------
(* Page fetching *)

\* what the headless crawl of a page would answer: the crawler raises, or
\* returns a result with its success flag and its markdown
CrawlAnswers(docs) ==
    {[kind |-> "raises", success |-> FALSE, markdown |-> <<>>]} \cup
    [kind : {"result"}, success : BOOLEAN, markdown : docs]

\* what the plain GET of a page would answer: the GET or raise_for_status
\* raises, or the response text
GetAnswers(docs) ==
    {[kind |-> "raises", html |-> <<>>]} \cup [kind : {"text"}, html : docs]

\* conv.handle(html): the text as html2text converts it; the conversion is
\* html2text's own, so the converted text is only marked as converted
html2text(html) == <<"html2text">> \o html

Raised == [ok |-> FALSE, strategy |-> "none", text |-> <<>>]
Fetched(how, t) == [ok |-> TRUE, strategy |-> how, text |-> t]

\* sitemap_page_per_file_recursive.py imports os, json, re, sys, subprocess,
\* asyncio, requests, html2text, ElementTree, urlparse and crawl4ai; the
\* name contextlib, used in fetch_markdown, is bound nowhere in the module.
contextlib_bound == FALSE

\* the try block of fetch_markdown: "crawled" tells whether crawler.arun was
\* reached, "returned" whether the block returned res.markdown.  Evaluating
\* contextlib.redirect_stdout raises NameError when the name is unbound, and
\* `except Exception: pass` swallows it like any crawler error.
dynamic_scrape(d) ==
    IF ~contextlib_bound
    THEN [crawled |-> FALSE, returned |-> FALSE, text |-> <<>>]
    ELSE IF d.kind = "result" /\ d.success /\ d.markdown # <<>>
    THEN [crawled |-> TRUE, returned |-> TRUE, text |-> d.markdown]
    ELSE [crawled |-> TRUE, returned |-> FALSE, text |-> <<>>]

\* the static fallback: requests.get, raise_for_status, html2text
static_fallback(g) ==
    IF g.kind = "raises" THEN Raised ELSE Fetched("Static", html2text(g.html))

\* fetch_markdown of sitemap_page_per_file_recursive.py, as one call
fetch_markdown_recursive(d, g) ==
    LET r == dynamic_scrape(d)
    IN  IF r.returned THEN Fetched("Dynamic", r.text) ELSE static_fallback(g)

\* fetch_markdown of sitemap_chunks.py and main.py: the crawl alone
fetch_markdown(d) ==
    IF d.kind = "result" /\ d.success
    THEN Fetched("Dynamic", d.markdown)
    ELSE Raised

----------------------------------------------------------------------------
(* Idle values of the parts a specification does not exercise *)

HdrIdle  == md = <<>> /\ sections = <<>> /\ hpc = "idle"
ParaIdle == /\ section = <<>> /\ max_chars = 0 /\ overlap_paras = 0
            /\ paras = <<>> /\ pidx = 0 /\ curr = <<>> /\ curr_len = 0
            /\ chunks = <<>> /\ parts = <<>> /\ ppc = "idle"
WinIdle  == /\ text = <<>> /\ MAX_CHARS = 0 /\ OVERLAP = 0 /\ start = 0
            /\ wchunks = <<>> /\ wpc = "idle"
SmIdle   == /\ web = <<>> /\ visited = {} /\ stack = <<>> /\ arg = 0
            /\ ret = <<>> /\ fetched = <<>> /\ steps = 0 /\ smpc = "idle"
FmIdle   == /\ dyn = <<>> /\ stat = <<>> /\ crawls = 0 /\ gets = 0
            /\ fresult = <<>> /\ fpc = "idle"
RunIdle  == /\ program = "none" /\ targets = <<>> /\ tidx = 0 /\ got = <<>>
            /\ queue = <<>> /\ counter = 0 /\ written = <<>> /\ exc = "none"
            /\ rpc = "idle"

----------------------------------------------------------------------------
(* Specification SpecHeader: one call of a header splitter on any document *)

MdChars == {"#", SP, NL, "a"}

HeaderInit ==
    /\ md \in SeqsUpTo(MdChars, MaxDocLen)
    /\ sections = <<>>
    /\ hpc = "start"
    /\ ParaIdle /\ WinIdle /\ SmIdle /\ FmIdle /\ RunIdle

CallChunkByHeader ==
    /\ hpc = "start"
    /\ sections' = chunk_by_header(md)
    /\ hpc' = "chunk_by_header"
    /\ UNCHANGED <<md, exceptHdr>>

CallChunkMarkdown ==
    /\ hpc = "start"
    /\ sections' = chunk_markdown(md)
    /\ hpc' = "chunk_markdown"
    /\ UNCHANGED <<md, exceptHdr>>

HeaderNext == CallChunkByHeader \/ CallChunkMarkdown

SpecHeader == HeaderInit /\ [][HeaderNext]_vars

HeaderReturned == hpc \in {"chunk_by_header", "chunk_markdown"}

\* C2: a document with no H1/H2 heading line, and some non-whitespace text,
\* is returned as exactly one section: the whole document, trimmed.
C2_NoHeadingOneSection ==
    (HeaderReturned /\ match_starts(md, 0) = <<>> /\ strip(md) # <<>>)
        => sections = <<strip(md)>>

\* the characters of s that are not whitespace, in order
solid_chars(s) == SelectSeq(s, LAMBDA c : c \notin Whitespace)

\* the non-whitespace characters of a list of sections, section by section
RECURSIVE solid_of_all(_)
solid_of_all(secs) ==
    IF secs = <<>> THEN <<>>
    ELSE solid_chars(secs[1]) \o solid_of_all(Tail(secs))

\* C13: header sectioning loses no content: the non-whitespace characters
\* of the document are, one for one and in document order, the
\* non-whitespace characters of the returned sections read in order; so
\* text before the first heading is in some section.
C13_NoContentLost ==
    HeaderReturned => solid_of_all(sections) = solid_chars(md)

----------------------------------------------------------------------------
(* Specification SpecPara: one call of chunk_by_paragraphs, one loop       *)
(* iteration at a time.  ppc is the position in the function: "start"      *)
(* before the split, "loop" at the head of an iteration, "flushed" between *)
(* the flush and the append of the same iteration, "done" after return.    *)

ParaChars == {"a", SP, NL}

ParaInit ==
    /\ section \in SeqsUpTo(ParaChars, MaxSectionLen)
    /\ max_chars \in 1..MaxMaxChars
    /\ overlap_paras \in 0..MaxOverlapParas
    /\ paras = <<>> /\ pidx = 0
    /\ curr = packer0.curr /\ curr_len = packer0.curr_len
    /\ chunks = packer0.chunks /\ parts = packer0.parts
    /\ ppc = "start"
    /\ HdrIdle /\ WinIdle /\ SmIdle /\ FmIdle /\ RunIdle

packer == [curr |-> curr, curr_len |-> curr_len, chunks |-> chunks,
           parts |-> parts]

SetPacker(st) ==
    /\ curr' = st.curr
    /\ curr_len' = st.curr_len
    /\ chunks' = st.chunks
    /\ parts' = st.parts

ParaSplit ==
    /\ ppc = "start"
    /\ paras' = split_paras(strip(section))
    /\ pidx' = 1
    /\ ppc' = "loop"
    /\ UNCHANGED <<section, max_chars, overlap_paras, curr, curr_len, chunks,
                   parts, exceptPara>>

ParaFlush ==
    /\ ppc = "loop"
    /\ pidx <= Len(paras)
    /\ must_flush(packer, paras[pidx], max_chars)
    /\ SetPacker(flush(packer, overlap_paras))
    /\ ppc' = "flushed"
    /\ UNCHANGED <<section, max_chars, overlap_paras, paras, pidx, exceptPara>>

ParaTake ==
    /\ pidx <= Len(paras)
    /\ \/ ppc = "flushed"
       \/ ppc = "loop" /\ ~must_flush(packer, paras[pidx], max_chars)
    /\ SetPacker(take(packer, paras[pidx]))
    /\ pidx' = pidx + 1
    /\ ppc' = "loop"
    /\ UNCHANGED <<section, max_chars, overlap_paras, paras, exceptPara>>

ParaReturn ==
    /\ ppc = "loop"
    /\ pidx > Len(paras)
    /\ SetPacker(flush_rest(packer))
    /\ ppc' = "done"
    /\ UNCHANGED <<section, max_chars, overlap_paras, paras, pidx, exceptPara>>

ParaNext == ParaSplit \/ ParaFlush \/ ParaTake \/ ParaReturn

SpecPara == ParaInit /\ [][ParaNext]_vars

ParaReturned == ppc = "done"

\* C3: called with overlap_paras = 1, every returned chunk is at most
\* max_chars long, unless it is one single paragraph that is itself longer
\* than max_chars.
C3_ChunkBound ==
    (ParaReturned /\ overlap_paras = 1) =>
        \A i \in 1..Len(chunks) :
            \/ Len(chunks[i]) <= max_chars
            \/ Len(parts[i]) = 1 /\ Len(parts[i][1]) > max_chars

\* the last n paragraphs of chunk number i are the first n of chunk i + 1
Carried(i, n) ==
    /\ n <= Len(parts[i])
    /\ n <= Len(parts[i + 1])
    /\ SubSeq(parts[i], Len(parts[i]) - n + 1, Len(parts[i]))
           = SubSeq(parts[i + 1], 1, n)

\* C4 as claimed: with overlap_paras = k > 0, the last k paragraphs of each
\* returned chunk are the first k paragraphs of the chunk after it.
C4_LastKCarried ==
    (ParaReturned /\ overlap_paras > 0) =>
        \A i \in 1..(Len(chunks) - 1) : Carried(i, overlap_paras)

\* C4, amended: with overlap_paras = k > 0, the last min(k, n) paragraphs of
\* each returned chunk, n being the number of paragraphs it was joined from,
\* are the first min(k, n) paragraphs of the chunk after it (paragraphs as
\* split from the section, before the chunk text is joined and trimmed).
C4_LastMinKCarried ==
    (ParaReturned /\ overlap_paras > 0) =>
        \A i \in 1..(Len(chunks) - 1) :
            Carried(i, IF overlap_paras < Len(parts[i])
                       THEN overlap_paras ELSE Len(parts[i]))

\* C4 witness: a call with k = 2 returned a chunk of one paragraph, then a
\* chunk of two paragraphs, then a third chunk.
C4_Witness ==
    /\ ParaReturned /\ overlap_paras = 2
    /\ Len(chunks) >= 3 /\ Len(parts[1]) = 1 /\ Len(parts[2]) = 2

\* the last n paragraphs of ps, or all of them when it has fewer
last_paras(ps, n) ==
    IF n >= Len(ps) THEN ps ELSE SubSeq(ps, Len(ps) - n + 1, Len(ps))

\* C12: for every overlap_paras = k >= 0, right after a flush and before
\* the new paragraph is appended, the accumulator holds exactly the last
\* min(k, n) paragraphs of the chunk just flushed, n being the number of
\* paragraphs of that chunk; with k = 0 the accumulator is empty.
C12_AccumulatorAfterFlush ==
    ppc = "flushed" =>
        /\ curr = last_paras(parts[Len(parts)], overlap_paras)
        /\ overlap_paras = 0 => curr = <<>>

----------------------------------------------------------------------------
(* Specification SpecWindow: one call of chunk_text, one loop iteration at *)
(* a time, under any configured MAX_CHARS and OVERLAP, and under the       *)
(* shipped configuration on a text of 2500 characters.  wpc is "loop" at   *)
(* the head of the while loop and "done" after return.                     *)

\* the shipped configuration
ShippedMaxChars == 2000
ShippedOverlap == 200

\* a text whose every character is distinct
NumberedText(n) == [i \in 1..n |-> i]

WindowInit ==
    /\ \/ /\ text \in SeqsUpTo({"a", "b"}, MaxTextLen)
          /\ MAX_CHARS \in 1..MaxWindow
          /\ OVERLAP \in 0..MaxWindow
       \/ /\ text = NumberedText(2500)
          /\ MAX_CHARS = ShippedMaxChars
          /\ OVERLAP = ShippedOverlap
    /\ start = 0
    /\ wchunks = <<>>
    /\ wpc = "loop"
    /\ HdrIdle /\ ParaIdle /\ SmIdle /\ FmIdle /\ RunIdle

\* one iteration of `while start < length`
WindowEmit ==
    /\ wpc = "loop"
    /\ start < Len(text)
    /\ Len(wchunks) < MaxWindows
    /\ LET end == window_end(start, Len(text), MAX_CHARS)
       IN  /\ wchunks' = Append(wchunks, slice(text, start, end))
           /\ IF end = Len(text)
              THEN wpc' = "done" /\ start' = start
              ELSE wpc' = "loop" /\ start' = next_start(end, OVERLAP)
    /\ UNCHANGED <<text, MAX_CHARS, OVERLAP, exceptWin>>

\* the loop condition fails
WindowExit ==
    /\ wpc = "loop"
    /\ ~(start < Len(text))
    /\ wpc' = "done"
    /\ UNCHANGED <<text, MAX_CHARS, OVERLAP, start, wchunks, exceptWin>>

WindowNext == WindowEmit \/ WindowExit

SpecWindow == WindowInit /\ [][WindowNext]_vars /\ WF_vars(WindowNext)

\* C5: a configuration with OVERLAP >= MAX_CHARS is rejected for a text
\* longer than MAX_CHARS: chunk_text emits no window for it.
C5_BadOverlapRejected ==
    (OVERLAP >= MAX_CHARS /\ Len(text) > MAX_CHARS) => wchunks = <<>>

ValidWindowCall == text # <<>> /\ 0 <= OVERLAP /\ OVERLAP < MAX_CHARS

\* window number i (from 0) of the claim: [i * step, min(i * step + max, L))
ClaimedWindow(i) ==
    LET lo == i * (MAX_CHARS - OVERLAP)
        hi == IF lo + MAX_CHARS < Len(text) THEN lo + MAX_CHARS ELSE Len(text)
    IN  SubSeq(text, lo + 1, hi)

\* the number of the first window that ends at L
LastWindow ==
    SetMin({i \in 0..Len(text) :
               i * (MAX_CHARS - OVERLAP) + MAX_CHARS >= Len(text)})

WindowsAsClaimed ==
    /\ wchunks = [i \in 1..(LastWindow + 1) |-> ClaimedWindow(i - 1)]
    /\ \A i \in 1..Len(wchunks) : Len(wchunks[i]) <= MAX_CHARS
    /\ LET last == wchunks[Len(wchunks)]
       IN  last = SubSeq(text, Len(text) - Len(last) + 1, Len(text))
    /\ \A i \in 2..Len(wchunks) :
          /\ Len(wchunks[i]) >= OVERLAP
          /\ Len(wchunks[i - 1]) >= OVERLAP
          /\ SubSeq(wchunks[i], 1, OVERLAP)
                 = SubSeq(wchunks[i - 1],
                          Len(wchunks[i - 1]) - OVERLAP + 1,
                          Len(wchunks[i - 1]))

\* C6: for a non-empty text and 0 <= OVERLAP < MAX_CHARS, chunk_text returns,
\* and what it returns is the windows [i*(MAX_CHARS-OVERLAP),
\* min(i*(MAX_CHARS-OVERLAP)+MAX_CHARS, L)) up to the first that ends at L:
\* each at most MAX_CHARS long, the last ending at the end of the text, each
\* after the first beginning with the last OVERLAP characters of the one
\* before it.
C6_SlidingWindows ==
    /\ []((ValidWindowCall /\ wpc = "done") => WindowsAsClaimed)
    /\ (ValidWindowCall ~> wpc = "done")

\* C6 witness: the shipped configuration returned two windows for the text
\* of 2500 characters, of 2000 and of 700 characters.
C6_Witness ==
    /\ wpc = "done" /\ Len(text) = 2500
    /\ MAX_CHARS = ShippedMaxChars /\ OVERLAP = ShippedOverlap
    /\ Len(wchunks) = 2
    /\ wchunks[1] = SubSeq(text, 1, 2000)
    /\ wchunks[2] = SubSeq(text, 1801, 2500)

----------------------------------------------------------------------------
(* Specification SpecSitemap: one top-level call fetch_sitemap_urls(URL)   *)
(* on any finite web.  A document is what one GET of a URL answers and    *)
(* the <loc> texts the function collects from it:                          *)
(*   "HTTPError"     the GET or raise_for_status raises;                   *)
(*   "sitemapindex"  a tree with that root tag: locs are its sitemap/loc;  *)
(*   "flat"          anything whose <loc> texts are returned as they are:  *)
(*                   bytes that do not parse (the regex fallback), a       *)
(*                   urlset (its url/loc), a tree with another root tag    *)
(*                   (every loc).                                          *)
(* The answer to a URL is chosen when the URL is first requested and is    *)
(* the same ever after.                                                    *)
(*                                                                         *)
(* stack holds one frame per active call that is inside the sitemapindex   *)
(* loop: its URL, the child locations, the index of the child being        *)
(* resolved and the urls gathered so far.  smpc is "call" when a call with *)
(* argument arg is being entered, "loop" at the head of the innermost      *)
(* frame's loop, "done" when the top-level call has returned ret, "raised" *)
(* when raise_for_status (or the GET) has raised through every frame.      *)
(* fetched counts the GETs of each URL and steps the steps taken so far.   *)

Urls == 1..NumUrls
RootUrl == 1

DocKinds == {"sitemapindex", "flat", "HTTPError"}
Docs == [kind : DocKinds, locs : SeqsUpTo(Urls, MaxLocs)]
NotRequested == [kind |-> "none", locs |-> <<>>]

\* the answers the web can give to a GET of u
Answers(u) == IF web[u] = NotRequested THEN Docs ELSE {web[u]}

\* the cycle guard with the test left out
never_visited(u, seen) == FALSE

\* if sitemap_url in visited
already_visited(u, seen) == u \in seen

SitemapInit ==
    /\ web = [u \in Urls |-> NotRequested]
    /\ visited = {}
    /\ stack = <<>>
    /\ arg = RootUrl
    /\ ret = <<>>
    /\ fetched = [u \in Urls |-> 0]
    /\ steps = 0
    /\ smpc = "call"
    /\ HdrIdle /\ ParaIdle /\ WinIdle /\ FmIdle /\ RunIdle

\* a call returns r: to the loop of the frame below, or out of the top call
ReturnTo(frames, r) ==
    /\ ret' = r
    /\ IF frames = <<>>
       THEN stack' = <<>> /\ smpc' = "done"
       ELSE LET n == Len(frames)
            IN  /\ stack' = [frames EXCEPT ![n].urls = @ \o r, ![n].i = @ + 1]
                /\ smpc' = "loop"

\* if sitemap_url in visited: return []
SmReturnVisited ==
    /\ steps' = steps + 1
    /\ smpc = "call"
    /\ already_visited(arg, visited)
    /\ ReturnTo(stack, <<>>)
    /\ UNCHANGED <<web, visited, arg, fetched, exceptSm>>

\* visited.add; session.get; raise_for_status raises
SmFetchRaises ==
    /\ steps' = steps + 1
    /\ smpc = "call"
    /\ ~already_visited(arg, visited)
    /\ \E doc \in Answers(arg) :
          /\ doc.kind = "HTTPError"
          /\ web' = [web EXCEPT ![arg] = doc]
    /\ visited' = visited \cup {arg}
    /\ fetched' = [fetched EXCEPT ![arg] = @ + 1]
    /\ stack' = <<>>
    /\ smpc' = "raised"
    /\ UNCHANGED <<arg, ret, exceptSm>>

\* visited.add; session.get; the ParseError fallback, a urlset or an unknown
\* root: the <loc> texts are returned
SmFetchLeaf ==
    /\ steps' = steps + 1
    /\ smpc = "call"
    /\ ~already_visited(arg, visited)
    /\ \E doc \in Answers(arg) :
          /\ doc.kind = "flat"
          /\ web' = [web EXCEPT ![arg] = doc]
          /\ ReturnTo(stack, doc.locs)
    /\ visited' = visited \cup {arg}
    /\ fetched' = [fetched EXCEPT ![arg] = @ + 1]
    /\ UNCHANGED <<arg, exceptSm>>

\* visited.add; session.get; a sitemapindex: enter the loop over its children
SmFetchIndex ==
    /\ steps' = steps + 1
    /\ smpc = "call"
    /\ ~already_visited(arg, visited)
    /\ \E doc \in Answers(arg) :
          /\ doc.kind = "sitemapindex"
          /\ web' = [web EXCEPT ![arg] = doc]
          /\ stack' = Append(stack, [url |-> arg, locs |-> doc.locs,
                                     i |-> 1, urls |-> <<>>])
    /\ visited' = visited \cup {arg}
    /\ fetched' = [fetched EXCEPT ![arg] = @ + 1]
    /\ smpc' = "loop"
    /\ UNCHANGED <<arg, ret, exceptSm>>

\* urls += fetch_sitemap_urls(child, visited): the call is entered
SmRecurse ==
    /\ steps' = steps + 1
    /\ smpc = "loop"
    /\ LET top == stack[Len(stack)]
       IN  /\ top.i <= Len(top.locs)
           /\ arg' = top.locs[top.i]
    /\ smpc' = "call"
    /\ UNCHANGED <<web, visited, stack, ret, fetched, exceptSm>>

\* the loop is over: return urls
SmReturnUrls ==
    /\ steps' = steps + 1
    /\ smpc = "loop"
    /\ LET top == stack[Len(stack)]
       IN  /\ top.i > Len(top.locs)
           /\ ReturnTo(SubSeq(stack, 1, Len(stack) - 1), top.urls)
    /\ UNCHANGED <<web, visited, arg, fetched, exceptSm>>

SitemapNext ==
    \/ SmReturnVisited
    \/ SmFetchRaises
    \/ SmFetchLeaf
    \/ SmFetchIndex
    \/ SmRecurse
    \/ SmReturnUrls

SpecSitemap == SitemapInit /\ [][SitemapNext]_vars /\ WF_vars(SitemapNext)

\* the most steps one top-level call can take: one per call entered (the
\* top call and one per child location), one per child call made, and one
\* return per sitemap index
StepBound == 1 + NumUrls + 2 * NumUrls * MaxLocs

SmRunning == smpc \in {"call", "loop"}

\* C1: the top-level call ends (it returns or raises) within StepBound
\* steps, never stuck before that; no URL is requested more than once
\* during it; and a call on a URL already in visited returns the empty list
\* and requests nothing.
C1_TerminatesFetchingOnce ==
    /\ [](/\ steps <= StepBound
          /\ SmRunning => ENABLED SitemapNext
          /\ \A u \in Urls : fetched[u] <= 1)
    /\ [][(smpc = "call" /\ arg \in visited)
              => (fetched' = fetched /\ ret' = <<>> /\ smpc' # "call")]_vars

\* C1 witness: the call returned after meeting a cycle: two sitemap indexes
\* that list each other.
C1_Witness ==
    /\ smpc = "done"
    /\ \E u, v \in Urls :
          /\ u # v
          /\ web[u].kind = "sitemapindex" /\ web[v].kind = "sitemapindex"
          /\ \E a \in 1..Len(web[u].locs) : web[u].locs[a] = v
          /\ \E b \in 1..Len(web[v].locs) : web[v].locs[b] = u

\* C11: the list a top-level call returns names no page URL twice.
C11_ResultDeduplicated ==
    smpc = "done" =>
        \A i, j \in 1..Len(ret) : ret[i] = ret[j] => i = j

----------------------------------------------------------------------------
(* Specification SpecFetch: one call of fetch_markdown of                  *)
(* sitemap_page_per_file_recursive.py on a page whose crawl would answer   *)
(* dyn and whose plain GET would answer stat.  fpc follows the call:       *)
(* NotFetched, TryDynamic (inside the try block), TryStatic (past it),     *)
(* then FetchedDynamic, FetchedStatic or Failed.  crawls counts the calls  *)
(* of crawler.arun and gets those of requests.get.                         *)

FetchTexts == SeqsUpTo({"a", SP}, MaxPageLen)

FetchInit ==
    /\ dyn \in CrawlAnswers(FetchTexts)
    /\ stat \in GetAnswers(FetchTexts)
    /\ crawls = 0
    /\ gets = 0
    /\ fresult = Raised
    /\ fpc = "NotFetched"
    /\ HdrIdle /\ ParaIdle /\ WinIdle /\ SmIdle /\ RunIdle

\* the call is made and the try block entered
FmEnter ==
    /\ fpc = "NotFetched"
    /\ fpc' = "TryDynamic"
    /\ UNCHANGED <<dyn, stat, crawls, gets, fresult, exceptFm>>

\* the try block: it returns the crawl's markdown, or is left for the
\* fallback (by falling through or by a swallowed exception)
FmDynamic ==
    /\ fpc = "TryDynamic"
    /\ LET r == dynamic_scrape(dyn)
       IN  /\ crawls' = IF r.crawled THEN crawls + 1 ELSE crawls
           /\ IF r.returned
              THEN fresult' = Fetched("Dynamic", r.text) /\ fpc' = "FetchedDynamic"
              ELSE fresult' = fresult /\ fpc' = "TryStatic"
    /\ UNCHANGED <<dyn, stat, gets, exceptFm>>

\* the static fallback
FmStatic ==
    /\ fpc = "TryStatic"
    /\ gets' = gets + 1
    /\ fresult' = static_fallback(stat)
    /\ fpc' = IF static_fallback(stat).ok THEN "FetchedStatic" ELSE "Failed"
    /\ UNCHANGED <<dyn, stat, crawls, exceptFm>>

FetchNext == FmEnter \/ FmDynamic \/ FmStatic

SpecFetch == FetchInit /\ [][FetchNext]_vars

\* the crawl of the page gives no content: it raises, is unsuccessful or
\* returns empty markdown
DynamicGivesNothing ==
    dyn.kind = "raises" \/ ~dyn.success \/ dyn.markdown = <<>>

\* C10: the dynamic strategy is tried before anything else; the static one
\* is tried only when the dynamic one raised, was unsuccessful or returned
\* nothing; when the dynamic one gives nothing and the static one succeeds
\* the static result is returned; and the call fails only when both fail.
C10_DynamicThenStatic ==
    /\ fpc \in {"TryStatic", "FetchedDynamic", "FetchedStatic", "Failed"}
           => crawls = 1
    /\ gets > 0 => DynamicGivesNothing
    /\ fpc \in {"TryStatic", "FetchedStatic", "Failed"} => DynamicGivesNothing
    /\ fpc = "FetchedStatic"
           => fresult = Fetched("Static", html2text(stat.html))
    /\ fpc = "FetchedDynamic" => fresult = Fetched("Dynamic", dyn.markdown)
    /\ fpc = "Failed" => (DynamicGivesNothing /\ stat.kind = "raises")

----------------------------------------------------------------------------
(* Specification SpecRun: the page loop of one run of main(), from the     *)
(* line that sets the counter, in each of the three programs that have     *)
(* one:                                                                    *)
(*   "sitemap_chunks"  sitemap_chunks.py: per target, fetch (a failure     *)
(*                     skips the page), chunk_by_header, chunk_by_paragraphs*)
(*                     and per chunk summarize, write chunk_<counter>;     *)
(*   "main"            main.py: the one URL, fetched outside any try,      *)
(*                     chunk_text, chunk_markdown, and per chunk           *)
(*                     summarize, write chunk_<counter>;                   *)
(*   "recursive"       sitemap_page_per_file_recursive.py: per target,     *)
(*                     fetch with the static fallback (a failure skips the *)
(*                     page), summarize the page, write <slug>.md.         *)
(* got is what each fetch so far gave, queue the chunks of the current     *)
(* page not yet summarized, written the artifacts in the order written,    *)
(* exc the exception that ended the run ("none" while there is none).      *)
(* rpc is "fetch" at the head of the page loop, "chunks" inside the chunk  *)
(* loops, "done" after the loop, "aborted" when an exception left main().  *)

Programs == {"sitemap_chunks", "main", "recursive"}

PageDocs == { <<>>,
              <<"a">>,
              <<"#", SP, "a">>,
              <<"#", SP, "a", NL, "#", "#", SP, "a">> }

\* x for part in parts for x in f(part), in order
RECURSIVE flatten(_)
flatten(lists) ==
    IF lists = <<>> THEN <<>> ELSE lists[1] \o flatten(Tail(lists))

\* the texts one fetched page is summarized and written as
page_chunks(prog, page) ==
    IF prog = "sitemap_chunks"
    THEN LET secs == chunk_by_header(page)
         IN  flatten([i \in 1..Len(secs) |->
                         chunk_by_paragraphs(secs[i], ShippedMaxChars, 1)])
    ELSE IF prog = "main"
    THEN LET bigs == chunk_text(page, ShippedMaxChars, ShippedOverlap)
         IN  flatten([i \in 1..Len(bigs) |-> chunk_markdown(bigs[i])])
    ELSE <<page>>

\* counter = 1 (count = 0 in the page-per-file program)
first_counter(prog) == IF prog = "recursive" THEN 0 ELSE 1

\* the increment left out
counter_kept(c) == c

\* counter += 1
counter_after_write(c) == c + 1

\* the fetch outside any try, as in main.py
fetch_error_propagates(prog) == "propagate"

\* what an exception of fetch_markdown does in main(): caught by the
\* `except Exception` around the fetch, the page is skipped; main.py has no
\* try around its fetch
on_fetch_error(prog) == IF prog = "main" THEN "propagate" ELSE "continue"

\* the summarize call inside the try of the fetch
summarizer_error_skips(prog) == "continue"

\* what a failure of summarize_chunk (sys.exit or RuntimeError) does in
\* main(): the call is outside every try
on_summarizer_error(prog) == "propagate"

\* the name the artifact is written under
artifact_name(prog, c, target) ==
    IF prog = "recursive" THEN <<"slug", target>> ELSE <<"chunk", c>>

RunInit ==
    /\ program \in Programs
    /\ targets \in {[i \in 1..n |-> i] : n \in 0..MaxTargets}
    /\ program = "main" => Len(targets) = 1
    /\ tidx = 1
    /\ got = <<>>
    /\ queue = <<>>
    /\ counter = first_counter(program)
    /\ written = <<>>
    /\ exc = "none"
    /\ rpc = "fetch"
    /\ HdrIdle /\ ParaIdle /\ WinIdle /\ SmIdle /\ FmIdle

\* the results fetch_markdown can have for a page in this program
FetchResults(prog) ==
    IF prog = "recursive"
    THEN {fetch_markdown_recursive(d, g) :
              d \in CrawlAnswers(PageDocs), g \in GetAnswers(PageDocs)}
    ELSE {fetch_markdown(d) : d \in CrawlAnswers(PageDocs)}

\* md = await fetch_markdown(target) returns; the page is segmented
RunFetched ==
    /\ rpc = "fetch"
    /\ tidx <= Len(targets)
    /\ \E r \in FetchResults(program) :
          /\ r.ok
          /\ got' = Append(got, r)
          /\ queue' = page_chunks(program, r.text)
    /\ rpc' = "chunks"
    /\ UNCHANGED <<program, targets, tidx, counter, written, exc, exceptRun>>

\* md = await fetch_markdown(target) raises
RunFetchRaises ==
    /\ rpc = "fetch"
    /\ tidx <= Len(targets)
    /\ \E r \in FetchResults(program) :
          /\ ~r.ok
          /\ got' = Append(got, r)
    /\ IF on_fetch_error(program) = "continue"
       THEN tidx' = tidx + 1 /\ rpc' = "fetch" /\ exc' = exc
       ELSE tidx' = tidx /\ rpc' = "aborted" /\ exc' = "fetch_markdown"
    /\ UNCHANGED <<program, targets, queue, counter, written, exceptRun>>

\* summarize_chunk returns; the artifact is written; the counter advances
RunSummarizeWrite ==
    /\ rpc = "chunks"
    /\ queue # <<>>
    /\ written' = Append(written,
                         [name   |-> artifact_name(program, counter, targets[tidx]),
                          target |-> targets[tidx],
                          text   |-> Head(queue)])
    /\ counter' = counter_after_write(counter)
    /\ queue' = Tail(queue)
    /\ UNCHANGED <<program, targets, tidx, got, exc, rpc, exceptRun>>

\* summarize_chunk fails: sys.exit(1) when the daemon is unreachable,
\* RuntimeError otherwise
RunSummarizeFails ==
    /\ rpc = "chunks"
    /\ queue # <<>>
    /\ \E e \in {"SystemExit", "RuntimeError"} :
          IF on_summarizer_error(program) = "continue"
          THEN /\ exc' = exc
               /\ queue' = <<>>
               /\ rpc' = rpc
          ELSE /\ exc' = e
               /\ queue' = queue
               /\ rpc' = "aborted"
    /\ UNCHANGED <<program, targets, tidx, got, counter, written, exceptRun>>

\* the chunk loops of the page are over: next target
RunNextPage ==
    /\ rpc = "chunks"
    /\ queue = <<>>
    /\ tidx' = tidx + 1
    /\ rpc' = "fetch"
    /\ UNCHANGED <<program, targets, got, queue, counter, written, exc,
                   exceptRun>>

\* the page loop is over
RunFinish ==
    /\ rpc = "fetch"
    /\ tidx > Len(targets)
    /\ rpc' = "done"
    /\ UNCHANGED <<program, targets, tidx, got, queue, counter, written, exc,
                   exceptRun>>

RunNext ==
    \/ RunFetched
    \/ RunFetchRaises
    \/ RunSummarizeWrite
    \/ RunSummarizeFails
    \/ RunNextPage
    \/ RunFinish

SpecRun == RunInit /\ [][RunNext]_vars

\* C7: in the programs that number their chunks, the artifacts are named
\* chunk_1, chunk_2, ... in the order written, whatever page each comes
\* from, and the counter is one more than the number written: it starts at
\* 1, a skipped page does not advance it, and no number is used twice.
C7_SequentialNumbering ==
    program \in {"sitemap_chunks", "main"} =>
        /\ counter = Len(written) + 1
        /\ \A i \in 1..Len(written) : written[i].name = <<"chunk", i>>

\* C7 witness: a run of sitemap_chunks.py ended having written chunks of two
\* pages with a skipped page among its targets.
C7_Witness ==
    /\ program = "sitemap_chunks" /\ rpc = "done"
    /\ \E k \in 1..Len(got) : ~got[k].ok
    /\ \E i, j \in 1..Len(written) : written[i].target # written[j].target

\* the <<target, text>> of everything written, in order
WrittenPairs == [i \in 1..Len(written) |-> <<written[i].target, written[i].text>>]

\* what is to be written for targets i, i + 1, ...: nothing for a page
\* whose fetch raised, every chunk of a page whose fetch returned
RECURSIVE DuePairs(_)
DuePairs(i) ==
    IF i > Len(got) THEN <<>>
    ELSE (IF got[i].ok
          THEN LET cs == page_chunks(program, got[i].text)
               IN  [k \in 1..Len(cs) |-> <<targets[i], cs[k]>>]
          ELSE <<>>) \o DuePairs(i + 1)

IsPrefix(a, b) == Len(a) <= Len(b) /\ a = SubSeq(b, 1, Len(a))

\* C9: a failing summarize call, of either kind, writes nothing and ends
\* the run; once the run has ended that way nothing more is fetched,
\* summarized or written; and what was written stays written.
C9_SummarizerFailureAborts ==
    /\ [][RunSummarizeFails =>
              (rpc' = "aborted" /\ written' = written /\ got' = got)]_vars
    /\ [](rpc = "aborted" => ~ENABLED RunNext)
    /\ [](exc \in {"SystemExit", "RuntimeError"} => rpc = "aborted")
    /\ [][IsPrefix(written, written')]_vars

\* C9 witness: a run was aborted by a summarizer error after it had written
\* an artifact and before it had fetched every target.
C9_Witness ==
    /\ rpc = "aborted" /\ exc = "RuntimeError"
    /\ written # <<>>
    /\ Len(got) < Len(targets)

====
